---- MODULE Spec2Model ----
(***************************************************************************)
(* Model of the two serverless handlers of the business-intelligence       *)
(* dashboard: the price aggregator (api/stocks.js) and the earnings        *)
(* transcript fetcher (api/earnings.js).  One behaviour is one invocation  *)
(* of one of the two handlers; the outbound provider calls of the          *)
(* invocation settle in any order.                                         *)
(***************************************************************************)
EXTENDS Integers, Sequences, FiniteSets, TLC

(* Bounds of the explored configurations. *)
MaxGroups == 2
MaxMembers == 2
MaxEntities == 3

(***************************************************************************)
(* Values                                                                  *)
(***************************************************************************)
Undefined == "undefined"
Null == "null"

Tickers == {"AAPL", "PFE"}

CompanyName(t) ==
  CASE t = "AAPL" -> "Apple Inc."
    [] t = "PFE" -> "Pfizer Inc."
    [] OTHER -> "Company"

IndustryKeys == <<"technology", "pharmaceutical", "industry3", "industry4">>
IndustryNames == <<"Technology Sector", "Pharmaceutical Sector", "Sector 3", "Sector 4">>

RECURSIVE SumSeq(_)
SumSeq(s) == IF s = <<>> THEN 0 ELSE Head(s) + SumSeq(Tail(s))

(* The shapes INDUSTRIES can take: a list of groups, each a list of tickers. *)
CompanyLists == UNION {[1..n -> Tickers] : n \in 0..MaxMembers}
GroupLists == UNION {[1..n -> CompanyLists] : n \in 0..MaxGroups}

MakeIndustries(gs) ==
  [g \in 1..Len(gs) |->
     [key |-> IndustryKeys[g],
      name |-> IndustryNames[g],
      companies |-> [i \in 1..Len(gs[g]) |->
                       [ticker |-> gs[g][i], name |-> CompanyName(gs[g][i])]]]]

Configurations ==
  {MakeIndustries(gs) : gs \in
     {x \in GroupLists : SumSeq([g \in 1..Len(x) |-> Len(x[g])]) <= MaxEntities}}

Methods == {"GET", "OPTIONS", "POST"}
ApiKeys == {Undefined, "", "secret"}
QueryTickers == {Undefined, "", "msft", "MSFT", "t404"}

(* JavaScript truthiness of the string-or-undefined values used here. *)
Falsy(v) == v = Undefined \/ v = ""

toUpperCase(s) ==
  CASE s = "msft" -> "MSFT"
    [] s = "t404" -> "T404"
    [] OTHER -> s

(***************************************************************************)
(* The provider: what one outbound call can come back with.                *)
(***************************************************************************)
StockOutcomes == {"neterr", "s500", "s500r404", "badjson", "badjson404",
                  "jsonnull", "emptyobj", "price"}
EarningsOutcomes == {"neterr", "s404", "s500", "s500r404", "badjson", "badjson404",
                     "jsonnull", "emptyobj", "data"}

JsonNull == [type |-> "null", keys |-> {}, price |-> Undefined]
JsonObject(ks, p) == [type |-> "object", keys |-> ks, price |-> p]

(* The fetch() result for an outcome: rejected, or a Response whose json() *)
(* either throws or yields the body.  statusText is the provider's reason  *)
(* phrase; errorText is the message of the rejection of fetch() or of      *)
(* json(), which quotes the start of an unparsable body.                   *)
Response(rej, isOk, st, stText, bad, errText, b) ==
  [rejects |-> rej, ok |-> isOk, status |-> st, statusText |-> stText,
   jsonThrows |-> bad, errorText |-> errText, body |-> b]

ProviderResponse(o) ==
  CASE o = "neterr" -> Response(TRUE, FALSE, "0", "", FALSE, "fetch failed", JsonNull)
    [] o = "s404" -> Response(FALSE, FALSE, "404", "Not Found", FALSE, "", JsonNull)
    [] o = "s500" -> Response(FALSE, FALSE, "500", "Internal Server Error", FALSE, "", JsonNull)
    [] o = "s500r404" -> Response(FALSE, FALSE, "500", "upstream 404", FALSE, "", JsonNull)
    [] o = "badjson" -> Response(FALSE, TRUE, "200", "OK", TRUE,
                                 "Unexpected end of JSON input", JsonNull)
    [] o = "badjson404" -> Response(FALSE, TRUE, "200", "OK", TRUE,
                                    "Unexpected token '<', \"<h1>404 No\"... is not valid JSON", JsonNull)
    [] o = "jsonnull" -> Response(FALSE, TRUE, "200", "OK", FALSE, "", JsonNull)
    [] o = "emptyobj" -> Response(FALSE, TRUE, "200", "OK", FALSE, "", JsonObject({}, Undefined))
    [] o = "price" -> Response(FALSE, TRUE, "200", "OK", FALSE, "",
                               JsonObject({"price", "ticker"}, "150.25"))
    [] o = "data" -> Response(FALSE, TRUE, "200", "OK", FALSE, "",
                              JsonObject({"transcript"}, Undefined))

Throw(msg) == [threw |-> TRUE, error |-> [message |-> msg], data |-> Undefined]
Return(d) == [threw |-> FALSE, error |-> [message |-> <<>>], data |-> d]

(* One outbound HTTP request, with what the provider has answered so far. *)
fetch(url, ticker, apiKey) ==
  [url |-> url, ticker |-> ticker, key |-> apiKey, outcome |-> "inflight"]

(***************************************************************************)
(* api/stocks.js                                                           *)
(***************************************************************************)
fetchStockPrice(ticker, o) ==
  LET response == ProviderResponse(o) IN
  IF response.rejects THEN Throw(<<response.errorText>>)
  ELSE IF ~response.ok
       THEN Throw(<<"API request failed for", ticker, response.status,
                    response.statusText>>)
  ELSE IF response.jsonThrows
       THEN Throw(<<response.errorText>>)
  ELSE Return(response.body)

Fulfilled(v) == [state |-> "fulfilled", value |-> v]
Rejected(e) == [state |-> "rejected", value |-> e]
Pending == [state |-> "pending"]

(* Variant: the callback does not await its lookup and returns at once. *)
stockPromiseNoAwait(company) ==
  Fulfilled([ticker |-> company.ticker, name |-> company.name,
             price |-> Undefined, timestamp |-> "now", success |-> TRUE])

(* The async map callback up to its first await: the lookup is in flight. *)
stockPromise(company) == Pending

(* Variant: the callback has no try/catch around its lookup. *)
stockCallbackNoCatch(company, o) ==
  LET r == fetchStockPrice(company.ticker, o) IN
  IF r.threw
  THEN Rejected(r.error)
  ELSE IF r.data.type = "null"
  THEN Rejected([message |-> <<"Cannot read properties of null">>])
  ELSE Fulfilled([ticker |-> company.ticker, name |-> company.name,
                  price |-> IF "price" \in r.data.keys THEN r.data.price ELSE Undefined,
                  timestamp |-> "now", success |-> TRUE])

(* Variant: a payload without a price field is reported as a failure. *)
stockCallbackPriceRequired(company, o) ==
  LET r == fetchStockPrice(company.ticker, o) IN
  IF r.threw
  THEN Fulfilled([ticker |-> company.ticker, name |-> company.name,
                  price |-> Null, timestamp |-> "now", success |-> FALSE,
                  error |-> r.error.message])
  ELSE IF r.data.type = "null" \/ "price" \notin r.data.keys
  THEN Fulfilled([ticker |-> company.ticker, name |-> company.name,
                  price |-> Null, timestamp |-> "now", success |-> FALSE,
                  error |-> <<"No price in payload">>])
  ELSE Fulfilled([ticker |-> company.ticker, name |-> company.name,
                  price |-> r.data.price, timestamp |-> "now", success |-> TRUE])

(* The async map callback, from the point its lookup settles. *)
stockCallback(company, o) ==
  LET r == fetchStockPrice(company.ticker, o) IN
  IF r.threw
  THEN Fulfilled([ticker |-> company.ticker, name |-> company.name,
                  price |-> Null, timestamp |-> "now", success |-> FALSE,
                  error |-> r.error.message])
  ELSE IF r.data.type = "null"
  THEN Fulfilled([ticker |-> company.ticker, name |-> company.name,
                  price |-> Null, timestamp |-> "now", success |-> FALSE,
                  error |-> <<"Cannot read properties of null">>])
  ELSE Fulfilled([ticker |-> company.ticker, name |-> company.name,
                  price |-> IF "price" \in r.data.keys THEN r.data.price ELSE Undefined,
                  timestamp |-> "now", success |-> TRUE])

VARIABLES industries, env, req, pc, grp, promises, industryResults,
          totalSuccessful, totalCompanies, headers, res, calls

vars == <<industries, env, req, pc, grp, promises, industryResults,
          totalSuccessful, totalCompanies, headers, res, calls>>

Requests ==
  {[endpoint |-> "stocks", method |-> m, query |-> [ticker |-> Undefined]] : m \in Methods}
  \cup {[endpoint |-> "earnings", method |-> m, query |-> [ticker |-> t]] :
          m \in Methods, t \in QueryTickers}

Init ==
  /\ req \in Requests
  /\ industries \in (IF req.endpoint = "stocks" THEN Configurations ELSE {<<>>})
  /\ env \in [API_KEY : ApiKeys]
  /\ pc = "start"
  /\ grp = 0
  /\ promises = <<>>
  /\ industryResults = <<>>
  /\ totalSuccessful = 0
  /\ totalCompanies = 0
  /\ headers = {}
  /\ res = <<>>
  /\ calls = <<>>

CorsHeaders ==
  {<<"Access-Control-Allow-Origin", "*">>,
   <<"Access-Control-Allow-Methods", "GET, OPTIONS">>,
   <<"Access-Control-Allow-Headers", "Content-Type">>}

EmptyBody == [ended |-> TRUE]
Continue == [short |-> FALSE, response |-> [status |-> 0, body |-> EmptyBody]]
ShortCircuit(r) == [short |-> TRUE, response |-> r]

(* The response is sent and the invocation ends without touching the loop. *)
Finish(r) ==
  /\ pc' = "done"
  /\ res' = Append(res, r)
  /\ UNCHANGED <<grp, promises, industryResults, totalSuccessful, totalCompanies, calls>>

(* Variant: the credential check is missing. *)
stocksPrecheckNoCredential(r, e) ==
  IF r.method = "OPTIONS"
  THEN ShortCircuit([status |-> 200, body |-> EmptyBody])
  ELSE IF r.method # "GET"
  THEN ShortCircuit([status |-> 405,
                     body |-> [error |-> "Method not allowed",
                               message |-> "This endpoint only accepts GET requests"]])
  ELSE Continue

(* Preflight, method and credential checks of api/stocks.js. *)
stocksPrecheck(r, e) ==
  IF r.method = "OPTIONS"
  THEN ShortCircuit([status |-> 200, body |-> EmptyBody])
  ELSE IF r.method # "GET"
  THEN ShortCircuit([status |-> 405,
                     body |-> [error |-> "Method not allowed",
                               message |-> "This endpoint only accepts GET requests"]])
  ELSE IF Falsy(e.API_KEY)
  THEN ShortCircuit([status |-> 500,
                     body |-> [error |-> "Configuration error",
                               message |-> "API authentication is not properly configured"]])
  ELSE Continue

(* Variant: the values come back in reverse order. *)
promiseAllReversed(ps) == [i \in 1..Len(ps) |-> ps[Len(ps) + 1 - i].value]

(* Promise.all: the values in the order of the promises. *)
promiseAll(ps) == [i \in 1..Len(ps) |-> ps[i].value]

(* Promise.all settles: every promise fulfilled, or one rejected. *)
promiseAllSettled(ps) ==
  \/ \A i \in 1..Len(ps) : ps[i].state = "fulfilled"
  \/ \E i \in 1..Len(ps) : ps[i].state = "rejected"

successCountOf(results) == Len(SelectSeq(results, LAMBDA r : r.success))

(* Variant: successCount counts every result. *)
industryResultCountsAll(industryData, results) ==
  [key |-> industryData.key,
   name |-> industryData.name,
   data |-> results,
   count |-> Len(results),
   successCount |-> Len(results)]

industryResult(industryData, results) ==
  [key |-> industryData.key,
   name |-> industryData.name,
   data |-> results,
   count |-> Len(results),
   successCount |-> successCountOf(results)]

(* Variant: totalSuccessful grows by the number of results. *)
addSuccessfulCountsAll(total, results) == total + Len(results)

addSuccessful(total, results) == total + successCountOf(results)
addCompanies(total, results) == total + Len(results)

(* Variant: the all-failed test looks at totalCompanies. *)
stocksResponseTestsCompanies(ir, ts, tc) ==
  IF tc = 0
  THEN [status |-> 503,
        body |-> [error |-> "Service unavailable",
                  message |-> "Unable to fetch stock data from provider",
                  industries |-> ir]]
  ELSE [status |-> 200,
        body |-> [success |-> TRUE, industries |-> ir, timestamp |-> "now",
                  totalCompanies |-> tc, totalSuccessful |-> ts]]

stocksResponse(ir, ts, tc) ==
  IF ts = 0
  THEN [status |-> 503,
        body |-> [error |-> "Service unavailable",
                  message |-> "Unable to fetch stock data from provider",
                  industries |-> ir]]
  ELSE [status |-> 200,
        body |-> [success |-> TRUE, industries |-> ir, timestamp |-> "now",
                  totalCompanies |-> tc, totalSuccessful |-> ts]]

outerCatch(e) ==
  [status |-> 500,
   body |-> [error |-> "Internal server error",
             message |-> "An unexpected error occurred while fetching stock data",
             details |-> e.message]]

(* Variant: only the first company's lookup is launched before the wait. *)
stockCallsFirstOnly(companies, apiKey) ==
  [i \in 1..(IF Len(companies) > 1 THEN 1 ELSE Len(companies)) |->
     fetch("stockprice", companies[i].ticker, apiKey)]

(* The lookups launched for one industry: one fetch per company. *)
stockCalls(companies, apiKey) ==
  [i \in 1..Len(companies) |-> fetch("stockprice", companies[i].ticker, apiKey)]

stockPromises(companies) ==
  [i \in 1..Len(companies) |-> stockPromise(companies[i])]

(* Variant: once a lookup has failed, the remaining industries are skipped. *)
stocksLoopStopsOnFailure(g, ir, ts, tc) ==
  /\ grp' = g
  /\ industryResults' = ir
  /\ totalSuccessful' = ts
  /\ totalCompanies' = tc
  /\ IF g <= Len(industries) /\ ts = tc
     THEN /\ promises' = stockPromises(industries[g].companies)
          /\ calls' = calls \o stockCalls(industries[g].companies, env.API_KEY)
          /\ pc' = "await"
          /\ res' = res
     ELSE /\ promises' = <<>>
          /\ calls' = calls
          /\ pc' = "done"
          /\ res' = Append(res, stocksResponse(ir, ts, tc))

(* The for-loop from industry g on, up to its next await or the response. *)
stocksLoop(g, ir, ts, tc) ==
  /\ grp' = g
  /\ industryResults' = ir
  /\ totalSuccessful' = ts
  /\ totalCompanies' = tc
  /\ IF g <= Len(industries)
     THEN /\ promises' = stockPromises(industries[g].companies)
          /\ calls' = calls \o stockCalls(industries[g].companies, env.API_KEY)
          /\ pc' = "await"
          /\ res' = res
     ELSE /\ promises' = <<>>
          /\ calls' = calls
          /\ pc' = "done"
          /\ res' = Append(res, stocksResponse(ir, ts, tc))

(* handler of api/stocks.js, from the entry to its first await. *)
stocksHandler ==
  /\ req.endpoint = "stocks"
  /\ pc = "start"
  /\ headers' = CorsHeaders
  /\ LET check == stocksPrecheck(req, env) IN
     IF check.short THEN Finish(check.response) ELSE stocksLoop(1, <<>>, 0, 0)
  /\ UNCHANGED <<industries, env, req>>

(* Number of lookups of the industries before industry g. *)
CallsBefore(g) ==
  SumSeq([h \in 1..(g - 1) |-> Len(industries[h].companies)])

(* The provider answers the lookup of member i of the current industry. *)
stockLookupSettles(i, o) ==
  /\ req.endpoint = "stocks"
  /\ pc = "await"
  /\ i \in 1..Len(promises)
  /\ promises[i].state = "pending"
  /\ calls' = [calls EXCEPT ![CallsBefore(grp) + i].outcome = o]
  /\ promises' = [promises EXCEPT ![i] = stockCallback(industries[grp].companies[i], o)]
  /\ UNCHANGED <<industries, env, req, pc, grp, industryResults,
                 totalSuccessful, totalCompanies, headers, res>>

(* await Promise.all(stockPromises) resumes the handler. *)
stocksJoin ==
  /\ req.endpoint = "stocks"
  /\ pc = "await"
  /\ promiseAllSettled(promises)
  /\ IF \E i \in 1..Len(promises) : promises[i].state = "rejected"
     THEN LET i == CHOOSE j \in 1..Len(promises) : promises[j].state = "rejected"
          IN Finish(outerCatch(promises[i].value))
     ELSE LET results == promiseAll(promises) IN
          stocksLoop(grp + 1,
                     Append(industryResults, industryResult(industries[grp], results)),
                     addSuccessful(totalSuccessful, results),
                     addCompanies(totalCompanies, results))
  /\ UNCHANGED <<industries, env, req, headers>>

(***************************************************************************)
(* api/earnings.js                                                         *)
(***************************************************************************)
fetchEarningsTranscript(ticker, o) ==
  LET response == ProviderResponse(o) IN
  IF response.rejects THEN Throw(<<response.errorText>>)
  ELSE IF ~response.ok
       THEN Throw(<<"API request failed for", ticker, response.status,
                    response.statusText>>)
  ELSE IF response.jsonThrows
       THEN Throw(<<response.errorText>>)
  ELSE Return(response.body)

(* String.prototype.includes('404') on a message made of these parts. *)
includes404(msg) ==
  \E k \in 1..Len(msg) :
     msg[k] \in {"404", "t404", "T404", "upstream 404",
                 "Unexpected token '<', \"<h1>404 No\"... is not valid JSON"}

(* Variant: the ticker check is missing. *)
earningsPrecheckNoTicker(r, e) ==
  IF r.method = "OPTIONS"
  THEN ShortCircuit([status |-> 200, body |-> EmptyBody])
  ELSE IF r.method # "GET"
  THEN ShortCircuit([status |-> 405,
                     body |-> [error |-> "Method not allowed",
                               message |-> "This endpoint only accepts GET requests"]])
  ELSE IF Falsy(e.API_KEY)
  THEN ShortCircuit([status |-> 500,
                     body |-> [error |-> "Configuration error",
                               message |-> "API authentication is not properly configured"]])
  ELSE Continue

(* Preflight, method, credential and ticker checks of api/earnings.js. *)
earningsPrecheck(r, e) ==
  IF r.method = "OPTIONS"
  THEN ShortCircuit([status |-> 200, body |-> EmptyBody])
  ELSE IF r.method # "GET"
  THEN ShortCircuit([status |-> 405,
                     body |-> [error |-> "Method not allowed",
                               message |-> "This endpoint only accepts GET requests"]])
  ELSE IF Falsy(e.API_KEY)
  THEN ShortCircuit([status |-> 500,
                     body |-> [error |-> "Configuration error",
                               message |-> "API authentication is not properly configured"]])
  ELSE IF Falsy(r.query.ticker)
  THEN ShortCircuit([status |-> 400,
                     body |-> [error |-> "Bad request",
                               message |-> "Ticker parameter is required. Usage: /api/earnings?ticker=MSFT"]])
  ELSE Continue

notFound(ticker) ==
  [status |-> 404,
   body |-> [error |-> "Not found",
             message |-> <<"No earnings transcript found for ticker", ticker>>,
             ticker |-> toUpperCase(ticker)]]

(* The try/catch of the handler once fetchEarningsTranscript has settled. *)
earningsResponse(ticker, r) ==
  IF ~r.threw
  THEN IF r.data.type = "null" \/ r.data.keys = {}
       THEN notFound(ticker)
       ELSE [status |-> 200,
             body |-> [success |-> TRUE, ticker |-> toUpperCase(ticker),
                       data |-> r.data, timestamp |-> "now"]]
  ELSE IF includes404(r.error.message)
       THEN notFound(ticker)
       ELSE [status |-> 500,
             body |-> [error |-> "Internal server error",
                       message |-> "An unexpected error occurred while fetching earnings transcript",
                       details |-> r.error.message,
                       ticker |-> toUpperCase(ticker)]]

(* handler of api/earnings.js, from the entry to its await. *)
earningsHandler ==
  /\ req.endpoint = "earnings"
  /\ pc = "start"
  /\ headers' = CorsHeaders
  /\ LET check == earningsPrecheck(req, env) IN
     IF check.short
     THEN Finish(check.response)
     ELSE /\ calls' = Append(calls, fetch("earningstranscript",
                                          toUpperCase(req.query.ticker), env.API_KEY))
          /\ pc' = "await"
          /\ UNCHANGED <<grp, promises, industryResults, totalSuccessful,
                         totalCompanies, res>>
  /\ UNCHANGED <<industries, env, req>>

(* The provider answers the transcript call and the handler responds. *)
earningsLookupSettles(o) ==
  /\ req.endpoint = "earnings"
  /\ pc = "await"
  /\ calls' = [calls EXCEPT ![Len(calls)].outcome = o]
  /\ pc' = "done"
  /\ res' = Append(res, earningsResponse(req.query.ticker,
                      fetchEarningsTranscript(toUpperCase(req.query.ticker), o)))
  /\ UNCHANGED <<industries, env, req, grp, promises, industryResults,
                 totalSuccessful, totalCompanies, headers>>

Next ==
  \/ stocksHandler
  \/ \E i \in 1..MaxMembers, o \in StockOutcomes : stockLookupSettles(i, o)
  \/ stocksJoin
  \/ earningsHandler
  \/ \E o \in EarningsOutcomes : earningsLookupSettles(o)

Spec == Init /\ [][Next]_vars

(***************************************************************************)
(* Vocabulary of the properties                                            *)
(***************************************************************************)
RECURSIVE Flatten(_)
Flatten(ss) == IF ss = <<>> THEN <<>> ELSE Head(ss) \o Flatten(Tail(ss))

ConfiguredEntities == Flatten([g \in 1..Len(industries) |-> industries[g].companies])
EntityCount == Len(ConfiguredEntities)

FailureOutcomes == {"neterr", "s500", "s500r404", "badjson", "badjson404", "jsonnull"}
SuccessOutcomes == {"emptyobj", "price"}

StocksGet ==
  req.endpoint = "stocks" /\ req.method = "GET" /\ ~Falsy(env.API_KEY)

Responded == Len(res) > 0
Aggregate == StocksGet /\ Responded /\ res[1].status \in {200, 503}
ResultEntries(ir) == Flatten([g \in 1..Len(ir) |-> ir[g].data])
InFlight == {k \in 1..Len(calls) : calls[k].outcome = "inflight"}
AllLaunchedAndSettled == Len(calls) = EntityCount /\ InFlight = {}

(***************************************************************************)
(* C1: the response to a GET with the credential present holds exactly one *)
(* result per configured entity: the groups in configuration order, and    *)
(* inside each group the results in the configured member order.           *)
(***************************************************************************)
C1_EveryEntityOnceInOrder ==
  (StocksGet /\ Responded) =>
    /\ Len(res) = 1
    /\ res[1].status \in {200, 503}
    /\ LET ir == res[1].body.industries IN
       /\ Len(ir) = Len(industries)
       /\ Len(ResultEntries(ir)) = EntityCount
       /\ \A g \in 1..Len(industries) :
            /\ ir[g].key = industries[g].key
            /\ ir[g].name = industries[g].name
            /\ Len(ir[g].data) = Len(industries[g].companies)
            /\ \A i \in 1..Len(industries[g].companies) :
                 /\ ir[g].data[i].ticker = industries[g].companies[i].ticker
                 /\ ir[g].data[i].name = industries[g].companies[i].name

C1_Witness ==
  /\ StocksGet /\ Responded
  /\ Len(industries) = 2
  /\ Len(industries[1].companies) = 2
  /\ industries[1].companies[1].ticker # industries[1].companies[2].ticker
  /\ Len(industries[2].companies) = 1
  /\ calls[1].outcome = "s500" /\ calls[2].outcome = "price"
  /\ Len(ResultEntries(res[1].body.industries)) = 3

(***************************************************************************)
(* C2: when every lookup of an invocation has failed, the response is the  *)
(* 503 'Service unavailable' failure carrying each entity's failure detail,*)
(* whatever the number of configured entities.                             *)
(***************************************************************************)
C2_AllFailedIsUnavailable ==
  (StocksGet /\ Responded /\ \A k \in 1..Len(calls) : calls[k].outcome \in FailureOutcomes) =>
    /\ res[1].status = 503
    /\ res[1].body.error = "Service unavailable"
    /\ LET entries == ResultEntries(res[1].body.industries) IN
       /\ Len(entries) = EntityCount
       /\ \A k \in 1..Len(entries) :
            ~entries[k].success /\ "error" \in DOMAIN entries[k]

C2_Witness ==
  /\ StocksGet /\ Responded
  /\ EntityCount = 3
  /\ \A k \in 1..Len(calls) : calls[k].outcome \in FailureOutcomes
  /\ {calls[k].outcome : k \in 1..Len(calls)} = {"neterr", "s500", "badjson"}
  /\ res[1].status = 503

(***************************************************************************)
(* C3: when at least one lookup has succeeded, the response is HTTP 200    *)
(* with success true, and totalSuccessful is the number of result entries  *)
(* whose success flag is true.                                             *)
(***************************************************************************)
C3_SomeSucceededIsSuccess ==
  (StocksGet /\ Responded /\ \E k \in 1..Len(calls) : calls[k].outcome \in SuccessOutcomes) =>
    /\ res[1].status = 200
    /\ res[1].body.success = TRUE
    /\ LET entries == ResultEntries(res[1].body.industries) IN
       /\ Len(entries) = EntityCount
       /\ res[1].body.totalSuccessful =
            Cardinality({k \in 1..Len(entries) : entries[k].success})

C3_Witness ==
  /\ StocksGet /\ Responded
  /\ res[1].status = 200
  /\ EntityCount = 3
  /\ res[1].body.totalSuccessful = 1
  /\ Cardinality({k \in 1..Len(calls) : calls[k].outcome \in FailureOutcomes}) = 2

(***************************************************************************)
(* C4: in every 200 response with a body, the group successCounts sum to   *)
(* totalSuccessful and the group counts sum to totalCompanies; in each     *)
(* group count is the number of its results and successCount the number of *)
(* those with success true.                                                *)
(***************************************************************************)
C4_GroupCountsSumToTotals ==
  (StocksGet /\ Responded /\ res[1].status = 200) =>
    LET ir == res[1].body.industries IN
    /\ SumSeq([g \in 1..Len(ir) |-> ir[g].successCount]) = res[1].body.totalSuccessful
    /\ SumSeq([g \in 1..Len(ir) |-> ir[g].count]) = res[1].body.totalCompanies
    /\ \A g \in 1..Len(ir) :
         /\ ir[g].count = Len(ir[g].data)
         /\ ir[g].successCount =
              Cardinality({i \in 1..Len(ir[g].data) : ir[g].data[i].success})

C4_Witness ==
  /\ StocksGet /\ Responded /\ res[1].status = 200
  /\ Len(res[1].body.industries) = 2
  /\ res[1].body.industries[1].count = 2
  /\ res[1].body.industries[1].successCount = 1
  /\ res[1].body.industries[2].count = 1
  /\ res[1].body.industries[2].successCount = 1
  /\ res[1].body.totalSuccessful = 2
  /\ res[1].body.totalCompanies = 3

(***************************************************************************)
(* C5: a failed lookup is caught in its own callback: its promise is       *)
(* fulfilled with success false, price null and an error detail; the       *)
(* handler never answers 500 'Internal server error' whatever fails; and   *)
(* every entry of the response reflects its own lookup only, so a failure  *)
(* leaves the results of the sibling entities as their lookups made them.  *)
(***************************************************************************)
C5_FailuresStayLocal ==
  StocksGet =>
    /\ \A i \in 1..Len(promises) :
         LET o == calls[CallsBefore(grp) + i].outcome IN
         /\ o \in FailureOutcomes =>
              /\ promises[i].state = "fulfilled"
              /\ ~promises[i].value.success
              /\ promises[i].value.price = Null
              /\ "error" \in DOMAIN promises[i].value
         /\ o \in SuccessOutcomes =>
              /\ promises[i].state = "fulfilled"
              /\ promises[i].value.success
    /\ Responded =>
         /\ res[1].status \in {200, 503}
         /\ LET entries == ResultEntries(res[1].body.industries) IN
            /\ Len(entries) = Len(calls)
            /\ \A k \in 1..Len(entries) :
                 /\ entries[k].success = (calls[k].outcome \in SuccessOutcomes)
                 /\ calls[k].outcome \in FailureOutcomes =>
                      /\ entries[k].price = Null
                      /\ "error" \in DOMAIN entries[k]

C5_Witness ==
  /\ StocksGet /\ Responded
  /\ Len(industries) = 2
  /\ Len(industries[1].companies) = 2
  /\ Len(calls) = 3
  /\ calls[1].outcome = "neterr"
  /\ calls[2].outcome = "price"
  /\ calls[3].outcome = "jsonnull"
  /\ res[1].status = 200
  /\ res[1].body.industries[1].data[2].success

(***************************************************************************)
(* C6 as stated: whenever the handler waits for a lookup to settle, the    *)
(* lookups of all configured entities, across all groups, have been        *)
(* dispatched.                                                             *)
(***************************************************************************)
C6_AllGroupsDispatchedBeforeAnyWait ==
  (StocksGet /\ pc = "await" /\ InFlight # {}) => Len(calls) = EntityCount

(***************************************************************************)
(* C6 amended: whenever the handler waits, all lookups of the current      *)
(* group and of the groups before it have been dispatched, those of the    *)
(* earlier groups have all settled, and no lookup of a later group has     *)
(* been dispatched.                                                        *)
(***************************************************************************)
C6_GroupDispatchedBeforeItsWait ==
  (StocksGet /\ pc = "await") =>
    /\ grp \in 1..Len(industries)
    /\ Len(promises) = Len(industries[grp].companies)
    /\ Len(calls) = CallsBefore(grp + 1)
    /\ \A k \in 1..Len(calls) :
         /\ calls[k].ticker = ConfiguredEntities[k].ticker
         /\ k <= CallsBefore(grp) => calls[k].outcome # "inflight"

C6_Witness ==
  /\ StocksGet /\ pc = "await"
  /\ grp = 2
  /\ Len(industries[1].companies) = 1
  /\ Len(industries[2].companies) = 2
  /\ InFlight = {2, 3}

(***************************************************************************)
(* C7: the 200 or 503 response is sent only once the lookup of every       *)
(* configured entity has been dispatched and has settled; while a lookup   *)
(* is in flight no response has been sent.                                 *)
(***************************************************************************)
C7_ResponseOnlyAfterAllSettled ==
  StocksGet =>
    /\ Responded => AllLaunchedAndSettled
    /\ InFlight # {} => res = <<>>

C7_Witness ==
  /\ Aggregate
  /\ Len(industries) = 2
  /\ EntityCount = 3
  /\ AllLaunchedAndSettled
  /\ Len(res) = 1

(***************************************************************************)
(* C8: with zero configured entities a GET with the credential present is  *)
(* answered with the success response, an empty result set and zero        *)
(* counts, and no outbound call is issued.                                 *)
(***************************************************************************)
C8_NoEntitiesIsEmptySuccess ==
  (StocksGet /\ EntityCount = 0) =>
    /\ calls = <<>>
    /\ Responded =>
         /\ res[1].status = 200
         /\ res[1].body.success = TRUE
         /\ ResultEntries(res[1].body.industries) = <<>>
         /\ res[1].body.totalCompanies = 0
         /\ res[1].body.totalSuccessful = 0

EarningsGet == req.endpoint = "earnings" /\ req.method = "GET"

(***************************************************************************)
(* C9 as stated: a GET to the transcript endpoint with an empty or missing *)
(* ticker is answered 400 with the usage hint and issues no outbound call, *)
(* whether or not the credential is configured.                            *)
(***************************************************************************)
C9_MissingTickerAlways400 ==
  (EarningsGet /\ Falsy(req.query.ticker)) =>
    /\ calls = <<>>
    /\ Responded =>
         /\ res[1].status = 400
         /\ res[1].body.error = "Bad request"

(***************************************************************************)
(* C9 amended: a GET to the transcript endpoint with an empty or missing   *)
(* ticker never issues an outbound call; it is answered 400 with the usage *)
(* hint when the credential is configured, and 500 'Configuration error'   *)
(* when it is not.                                                         *)
(***************************************************************************)
C9_MissingTicker400WhenConfigured ==
  (EarningsGet /\ Falsy(req.query.ticker)) =>
    /\ calls = <<>>
    /\ pc \in {"start", "done"}
    /\ Responded =>
         IF Falsy(env.API_KEY)
         THEN /\ res[1].status = 500
              /\ res[1].body.error = "Configuration error"
         ELSE /\ res[1].status = 400
              /\ res[1].body.error = "Bad request"
              /\ res[1].body.message =
                   "Ticker parameter is required. Usage: /api/earnings?ticker=MSFT"

C9_Witness ==
  /\ EarningsGet
  /\ req.query.ticker = ""
  /\ env.API_KEY = "secret"
  /\ Responded
  /\ res[1].status = 400
  /\ calls = <<>>

(***************************************************************************)
(* C10: on both endpoints an outbound call exists only if the method is    *)
(* GET and the credential is configured and, on the transcript endpoint,   *)
(* the ticker is present; preflight, wrong-method, missing-credential and  *)
(* missing-ticker requests end with their own response and no call.        *)
(***************************************************************************)
C10_CallsOnlyAfterChecks ==
  /\ calls # <<>> =>
       /\ req.method = "GET"
       /\ ~Falsy(env.API_KEY)
       /\ req.endpoint = "earnings" => ~Falsy(req.query.ticker)
  /\ (Responded /\ req.method = "OPTIONS") =>
       res[1].status = 200 /\ res[1].body = EmptyBody /\ calls = <<>>
  /\ (Responded /\ req.method \notin {"GET", "OPTIONS"}) =>
       res[1].status = 405 /\ calls = <<>>
  /\ (Responded /\ req.method = "GET" /\ Falsy(env.API_KEY)) =>
       res[1].status = 500 /\ res[1].body.error = "Configuration error" /\ calls = <<>>
  /\ (Responded /\ EarningsGet /\ ~Falsy(env.API_KEY) /\ Falsy(req.query.ticker)) =>
       res[1].status = 400 /\ calls = <<>>

C10_Witness ==
  /\ req.endpoint = "stocks"
  /\ req.method = "GET"
  /\ env.API_KEY = ""
  /\ EntityCount = 3
  /\ Responded
  /\ res[1].status = 500
  /\ res[1].body.error = "Configuration error"
  /\ calls = <<>>

EarningsFailures == {"neterr", "s404", "s500", "s500r404", "badjson", "badjson404"}

(***************************************************************************)
(* C11: when the transcript call has failed, the response is 404 exactly   *)
(* when the provider answered 404 for the ticker; any other failure        *)
(* (network error, other non-2xx status, unparsable body) is answered 500  *)
(* 'Internal server error' with the ticker and the diagnostic message.     *)
(***************************************************************************)
C11_NotFoundOnlyWhenProviderSaysSo ==
  (EarningsGet /\ Responded /\ calls # <<>> /\ calls[1].outcome \in EarningsFailures) =>
    IF calls[1].outcome = "s404"
    THEN /\ res[1].status = 404
         /\ res[1].body.error = "Not found"
    ELSE /\ res[1].status = 500
         /\ res[1].body.error = "Internal server error"
         /\ res[1].body.ticker = toUpperCase(req.query.ticker)
         /\ res[1].body.details # <<>>

EmptyPayloads == {k \in 1..Len(calls) : calls[k].outcome = "emptyobj"}
Succeeded == {k \in 1..Len(calls) : calls[k].outcome \in SuccessOutcomes}

(***************************************************************************)
(* C12: a lookup answered 2xx with an object that has no price field gives *)
(* a successful entry without a price value; the entry is counted in its   *)
(* group's successCount and in totalSuccessful, and a batch in which every *)
(* lookup is answered that way is answered 200, not 503.                   *)
(***************************************************************************)
C12_EmptyPayloadCountsAsSuccess ==
  (StocksGet /\ Responded /\ EmptyPayloads # {}) =>
    /\ res[1].status = 200
    /\ res[1].body.totalSuccessful = Cardinality(Succeeded)
    /\ res[1].body.totalSuccessful >= Cardinality(EmptyPayloads)
    /\ LET ir == res[1].body.industries
           entries == ResultEntries(ir) IN
       /\ Len(entries) = Len(calls)
       /\ \A k \in EmptyPayloads :
            /\ entries[k].success
            /\ entries[k].price = Undefined
            /\ "error" \notin DOMAIN entries[k]
       /\ \A g \in 1..Len(ir) :
            ir[g].successCount =
              Cardinality({k \in Succeeded : k > CallsBefore(g) /\ k <= CallsBefore(g + 1)})

C12_Witness ==
  /\ StocksGet /\ Responded
  /\ EntityCount = 3
  /\ Len(industries) = 2
  /\ EmptyPayloads = {1, 2, 3}
  /\ res[1].status = 200
  /\ res[1].body.totalSuccessful = 3

(***************************************************************************)
(* C13: in a GET with the credential present the call log holds at most    *)
(* one lookup per configured entity, the k-th call being the lookup of the *)
(* k-th entity; once the handler has responded it holds exactly one per    *)
(* entity, whatever the other lookups came back with: a failed lookup is   *)
(* not issued again and does not keep a later lookup, of the same or of a  *)
(* later group, from being issued.                                         *)
(***************************************************************************)
C13_OneLookupPerEntity ==
  StocksGet =>
    /\ Len(calls) <= EntityCount
    /\ \A k \in 1..Len(calls) :
         /\ calls[k].url = "stockprice"
         /\ calls[k].ticker = ConfiguredEntities[k].ticker
    /\ Responded => Len(calls) = EntityCount
    /\ (pc = "await" /\ \E k \in 1..Len(calls) : calls[k].outcome \in FailureOutcomes) =>
         Len(calls) = CallsBefore(grp + 1)

C13_Witness ==
  /\ StocksGet /\ Responded
  /\ Len(industries) = 2
  /\ Len(industries[1].companies) = 1
  /\ Len(industries[2].companies) = 2
  /\ calls[1].outcome = "neterr"
  /\ calls[2].outcome = "s500"
  /\ calls[3].outcome = "price"
  /\ Len(calls) = 3
====
